---- MODULE Spec2Model ----
(***************************************************************************)
(* Commitment-tree builder of the hybrid dispute dashboard:                *)
(* lib/tree.py (build_bfs_tree, bfs_to_hierarchical, build_tree_stream,    *)
(* load_tree, get_tree_hierarchical) and the routes of server.py that      *)
(* drive it (/api/build-tree, /api/tree, /api/tree/raw).                   *)
(***************************************************************************)
EXTENDS Integers, Sequences, FiniteSets, TLC

(***************************************************************************)
(* Bounds of the model.                                                    *)
(***************************************************************************)
\* Highest block number a request names (Spec); ranges lie in 0..MaxBlock.
MaxBlock == 3
\* Highest block number a request names when requests run concurrently (SpecServer).
MaxServerBlock == 1
\* Longest leaf sequence / state-root sequence handed to the pure functions.
MaxLeaves == 4
\* Longest BFS array handed to the projector.
MaxBfs == 7

\* The request slots of the server: two /api/build-tree requests may be in flight.
Builds == {1, 2}

(***************************************************************************)
(* Values.  A digest (Python bytes) is a leaf digest <<"d", k>> or the     *)
(* Keccak-256 of the concatenation of two digests; the hash is modelled as *)
(* a free constructor (collision free).                                    *)
(***************************************************************************)
Digest(k) == <<"d", k>>
ZeroDigest == Digest(0)

\* Web3.keccak(left + right)
Keccak(left, right) == <<"keccak", left, right>>

(***************************************************************************)
(* A hex string is <<prefix, digits, bytes>>: prefix "0x" or "", digits    *)
(* "lower", "upper" or "bad" (not hexadecimal), bytes the digest the       *)
(* digits spell.                                                           *)
(***************************************************************************)
HexStr(prefix, digits, bytes) == <<prefix, digits, bytes>>
\* "0x" + "00" * 32
ZeroHex == HexStr("0x", "lower", ZeroDigest)
\* a returned stateRoot that bytes.fromhex rejects
BadHex == HexStr("0x", "bad", ZeroDigest)
\* bytes.fromhex accepts the string
IsHex(r) == r[2] # "bad"
\* bytes.fromhex(r[2:]) if r.startswith("0x") else bytes.fromhex(r)
FromHex(r) == r[3]
\* "0x" + node.hex()
ToHex(b) == HexStr("0x", "lower", b)
\* hash_val[:10] + "..."
ShortName(h) == <<"first10", h>>

(***************************************************************************)
(* Python values, tagged by their type.                                    *)
(***************************************************************************)
PyInt(n) == <<"int", n>>
PyStr(s) == <<"str", s>>
PyNone == <<"None">>
PyList(s) == <<"list", s>>
PyDict(d) == <<"dict", d>>
IsPyInt(v) == v[1] = "int"
IsPyStr(v) == v[1] = "str"
IsPyList(v) == v[1] = "list"
IsPyDict(v) == v[1] = "dict"
\* bool(v): None, 0, "" (not modelled), [] and {} are falsy
Truthy(v) ==
    CASE v[1] = "None" -> FALSE
      [] v[1] = "int" -> v[2] # 0
      [] v[1] = "list" -> v[2] # <<>>
      [] v[1] = "dict" -> DOMAIN v[2] # {}
      [] OTHER -> TRUE
\* d.get(key, default) on a dict payload
DictGet(d, key, default) == IF key \in DOMAIN d THEN d[key] ELSE default

Max(a, b) == IF a >= b THEN a ELSE b
RECURSIVE Pow2(_)
Pow2(k) == IF k <= 0 THEN 1 ELSE 2 * Pow2(k - 1)
\* math.ceil(math.log2(n)) for n >= 1
RECURSIVE CeilLog2(_)
CeilLog2(n) == IF n <= 1 THEN 0 ELSE 1 + CeilLog2((n + 1) \div 2)
Last(s) == s[Len(s)]

(***************************************************************************)
(* build_bfs_tree (tree.py 28-56).  Python index i is sequence index i+1.  *)
(***************************************************************************)
\* tree[leaf_start + i] = leaf, for every leaf
PlaceLeaves(leaves) ==
    LET n == Len(leaves)
    IN  [j \in 1..(2 * n - 1) |->
            IF j - 1 >= n - 1 THEN leaves[j - 1 - (n - 1) + 1] ELSE ZeroDigest]

RECURSIVE FillInternal(_, _)
\* for i in range(leaf_start - 1, -1, -1): tree[i] = keccak(tree[2i+1] + tree[2i+2])
FillInternal(tree, i) ==
    IF i < 0 THEN tree
    ELSE FillInternal(
           [tree EXCEPT ![i + 1] = Keccak(tree[2 * i + 1 + 1], tree[2 * i + 2 + 1])],
           i - 1)

\* the loop over the internal nodes started one index too low
build_bfs_tree_short(leaves) ==
    LET n == Len(leaves)
    IN  IF n = 0 THEN <<>>
        ELSE FillInternal(PlaceLeaves(leaves), (n - 1) - 2)

build_bfs_tree(leaves) ==
    LET n == Len(leaves)
    IN  IF n = 0 THEN <<>>
        ELSE FillInternal(PlaceLeaves(leaves), (n - 1) - 1)

(***************************************************************************)
(* bfs_to_hierarchical (tree.py 59-114).  build_node returns None as the   *)
(* empty sequence and a node dict as a one-element sequence.               *)
(***************************************************************************)
\* the children field written even when no child was attached
NodeDictAlwaysChildren(hash_val, level, range_start, range_end, is_leaf, children) ==
    [name |-> ShortName(hash_val), hash |-> hash_val, depth |-> level,
     blockRange |-> <<range_start, range_end>>, isLeaf |-> is_leaf,
     children |-> children]
NodeDict(hash_val, level, range_start, range_end, is_leaf, children) ==
    IF children = <<>>
    THEN [name |-> ShortName(hash_val), hash |-> hash_val, depth |-> level,
          blockRange |-> <<range_start, range_end>>, isLeaf |-> is_leaf]
    ELSE [name |-> ShortName(hash_val), hash |-> hash_val, depth |-> level,
          blockRange |-> <<range_start, range_end>>, isLeaf |-> is_leaf,
          children |-> children]

\* the midpoint rounded up
MidCeil(range_start, range_end) == (range_start + range_end + 1) \div 2
\* mid = (range_start + range_end) // 2
Mid(range_start, range_end) == (range_start + range_end) \div 2

RECURSIVE build_node(_, _, _, _, _, _)
build_node(bfs_array, depth, index, level, range_start, range_end) ==
    IF index >= Len(bfs_array) THEN <<>>
    ELSE
      LET hash_val == bfs_array[index + 1]
          is_leaf == (level = depth)
      IN  IF is_leaf
          THEN << NodeDict(hash_val, level, range_start, range_end, TRUE, <<>>) >>
          ELSE
            LET mid == Mid(range_start, range_end)
                left == build_node(bfs_array, depth, 2 * index + 1, level + 1,
                                   range_start, mid)
                right == build_node(bfs_array, depth, 2 * index + 2, level + 1,
                                    mid + 1, range_end)
            IN  << NodeDict(hash_val, level, range_start, range_end, FALSE,
                            left \o right) >>

\* {} for an empty array, else build_node(0, 0, block_start, block_end)
bfs_to_hierarchical(bfs_array, block_start, block_end, depth) ==
    IF bfs_array = <<>> THEN <<>>
    ELSE build_node(bfs_array, depth, 0, 0, block_start, block_end)

(***************************************************************************)
(* The padding step of build_tree_stream (tree.py 174-183).                *)
(***************************************************************************)
\* depth = max(1, ceil(log2(n))) if n > 1 else 1
PadDepth(n) == IF n > 1 THEN Max(1, CeilLog2(n)) ELSE 1

RECURSIVE Repeat(_, _)
Repeat(x, k) == IF k <= 0 THEN <<>> ELSE <<x>> \o Repeat(x, k - 1)

\* padding with the zero digest whatever the input
PaddingHashZero(state_roots) == ZeroHex
\* padding_hash = state_roots[-1] if state_roots else "0x" + "00" * 32
PaddingHash(state_roots) ==
    IF state_roots # <<>> THEN Last(state_roots) ELSE ZeroHex

\* [depth, padded_size, padding_needed, padded_roots]
Pad(state_roots) ==
    LET depth == PadDepth(Len(state_roots))
        padded_size == Pow2(depth)
        padding_needed == padded_size - Len(state_roots)
    IN  [depth |-> depth, padded_size |-> padded_size,
         padding_needed |-> padding_needed,
         padded_roots |-> state_roots \o Repeat(PaddingHash(state_roots), padding_needed)]

(***************************************************************************)
(* The envelope file: json.dump / json.load (tree.py 209-210, 229-230).    *)
(* A JSON text is a tagged value; an object is the sequence of its         *)
(* key/value members in written order, a Python dict a function of keys.   *)
(***************************************************************************)
\* insertion order of the keys of the dicts the builder writes
FieldOrder ==
    << "scenario", "blockStart", "blockEnd", "depth", "numBlocks", "numLeaves",
       "paddingLeaves", "rootCommitment", "blocks", "commitmentsBFS",
       "number", "stateRoot" >>

InDomain(d, k) == k \in DOMAIN d

RECURSIVE json_dump(_)
json_dump(v) ==
    CASE v[1] = "int" -> <<"number", v[2]>>
      [] v[1] = "str" -> <<"string", v[2]>>
      [] v[1] = "None" -> <<"null">>
      [] v[1] = "list" -> <<"array", [i \in 1..Len(v[2]) |-> json_dump(v[2][i])]>>
      [] v[1] = "dict" ->
           LET keys == SelectSeq(FieldOrder, LAMBDA k : InDomain(v[2], k))
           IN  <<"object", [i \in 1..Len(keys) |-> <<keys[i], json_dump(v[2][keys[i]])>>]>>

\* the value of the last member named k (json.load keeps the last duplicate)
RECURSIVE LastMember(_, _)
LastMember(members, k) ==
    IF Last(members)[1] = k THEN Last(members)[2]
    ELSE LastMember(SubSeq(members, 1, Len(members) - 1), k)

RECURSIVE json_load(_)
\* numbers read back as text
json_load_numbers_as_text(j) ==
    CASE j[1] = "number" -> PyStr(j[2])
      [] j[1] = "string" -> PyStr(j[2])
      [] j[1] = "null" -> PyNone
      [] j[1] = "array" -> PyList([i \in 1..Len(j[2]) |-> json_load(j[2][i])])
      [] j[1] = "object" ->
           PyDict([k \in {j[2][i][1] : i \in 1..Len(j[2])} |->
                      json_load(LastMember(j[2], k))])

json_load(j) ==
    CASE j[1] = "number" -> PyInt(j[2])
      [] j[1] = "string" -> PyStr(j[2])
      [] j[1] = "null" -> PyNone
      [] j[1] = "array" -> PyList([i \in 1..Len(j[2]) |-> json_load(j[2][i])])
      [] j[1] = "object" ->
           PyDict([k \in {j[2][i][1] : i \in 1..Len(j[2])} |->
                      json_load(LastMember(j[2], k))])

\* The content of the output path: no file, a text json.load rejects (empty or
\* cut short), or a JSON text.
NoFile == <<"absent">>
Unparsable == <<"unparsable">>
JsonFile(j) == <<"json", j>>

\* load_tree (tree.py 226-232): any exception of open/json.load gives None
load_tree(f) == IF f[1] = "json" THEN json_load(f[2]) ELSE PyNone

(***************************************************************************)
(* get_tree_hierarchical (tree.py 235-256).  The outcome is a returned     *)
(* value or a raised exception.                                            *)
(***************************************************************************)
Return(v) == <<"return", v>>
Raise(e) == <<"raise", e>>

\* the depth handed to build_node: level == depth is False for a non-int
DepthArg(v) == IF IsPyInt(v) THEN v[2] ELSE -1
\* the strings of a list of str
Strings(l) == [i \in 1..Len(l) |-> l[i][2]]

get_tree_hierarchical(f) ==
    LET tree_data == load_tree(f)
    IN  IF ~Truthy(tree_data) THEN Return(PyNone)
        ELSE IF ~IsPyDict(tree_data) THEN Raise("AttributeError")
        ELSE
          LET d == tree_data[2]
              bfs == DictGet(d, "commitmentsBFS", PyList(<<>>))
              block_start == DictGet(d, "blockStart", PyInt(0))
              block_end == DictGet(d, "blockEnd", PyInt(0))
              depth == DictGet(d, "depth", PyInt(0))
              metadata(n) ==
                  [blockStart |-> DictGet(d, "blockStart", PyNone),
                   blockEnd |-> DictGet(d, "blockEnd", PyNone),
                   depth |-> DictGet(d, "depth", PyNone),
                   totalNodes |-> n,
                   rootCommitment |-> DictGet(d, "rootCommitment", PyNone)]
              blocks == DictGet(d, "blocks", PyList(<<>>))
          IN  IF ~IsPyList(bfs) THEN Raise("TypeError")
              ELSE IF bfs[2] = <<>>
              THEN Return(PyDict([metadata |-> metadata(0), tree |-> <<>>,
                                  blocks |-> blocks]))
              ELSE IF ~(IsPyInt(block_start) /\ IsPyInt(block_end))
              THEN Raise("TypeError")
              ELSE Return(PyDict(
                     [metadata |-> metadata(Len(bfs[2])),
                      tree |-> bfs_to_hierarchical(Strings(bfs[2]), block_start[2],
                                                   block_end[2], DepthArg(depth)),
                      blocks |-> blocks]))

\* GET /api/tree (server.py 143-152)
get_tree(f) ==
    LET result == get_tree_hierarchical(f)
    IN  IF result = Return(PyNone)
        THEN Return(PyDict([error |-> PyStr("No tree loaded"), tree |-> PyNone]))
        ELSE result

\* GET /api/tree/raw (server.py 155-164)
get_tree_raw(f) ==
    LET result == load_tree(f)
    IN  IF result = PyNone
        THEN Return(PyDict([error |-> PyStr("No tree loaded")]))
        ELSE Return(result)

(***************************************************************************)
(* State.                                                                  *)
(*   pc[b]          where the generator build_tree_stream of request b is  *)
(*                  suspended: "idle" (no request), "started", "collecting",*)
(*                  "error", "building", "complete" (at that yield),       *)
(*                  "finished" (returned), "raised" (an exception left     *)
(*                  it), "closed" (the client went away; never resumed)    *)
(*   block_start, block_end, state_roots, blocks_info                      *)
(*                  the arguments and locals of the generator              *)
(*   events[b]      the events the generator has yielded so far            *)
(*   fetchLog[b]    the calls of get_state_root so far: <<block, absent>>  *)
(*   file           the content of the output path                         *)
(*   state          the server's state dict (tree_loaded, tree_block_range)*)
(*   prior          the content of the output path when the build of Spec  *)
(*                  started                                                *)
(*   call, ret      a call of one of the functions and what it returned    *)
(***************************************************************************)
VARIABLES pc, block_start, block_end, state_roots, blocks_info, events,
          fetchLog, file, state, prior, call, ret

buildVars == <<pc, block_start, block_end, state_roots, blocks_info, events, fetchLog>>
serverVars == <<buildVars, file, state>>
fnVars == <<call, ret>>
vars == <<serverVars, prior, fnVars>>

Suspended == {"started", "collecting", "error", "building", "complete"}
Ended == {"finished", "raised", "closed"}

\* the events of build_tree_stream (tree.py 126-132, 141-150, 154-157, 166-172, 212-223)
EvStarted(s, e) ==
    [event |-> "progress", step |-> "started", message |-> <<"Building tree for blocks", s, e>>]
EvCollecting(block_num, i, num_blocks) ==
    [event |-> "progress", step |-> "collecting", current |-> block_num,
     index |-> i + 1, total |-> num_blocks]
EvError(block_num) ==
    [event |-> "error", message |-> <<"Failed to get state root for block", block_num>>]
EvBuilding(n) ==
    [event |-> "progress", step |-> "building", message |-> <<"Collected state roots", n>>]
\* the summary reporting the block count as its leaf count
EvCompleteBlocksAsLeaves(depth, tree_hex, padded_size, num_blocks, padding_needed) ==
    [event |-> "complete", depth |-> depth, total_nodes |-> Len(tree_hex),
     leaves |-> num_blocks, actual_blocks |-> num_blocks, padding |-> padding_needed,
     root |-> IF tree_hex # <<>> THEN PyStr(tree_hex[1]) ELSE PyNone,
     path |-> "output_path"]
EvComplete(depth, tree_hex, padded_size, num_blocks, padding_needed) ==
    [event |-> "complete", depth |-> depth, total_nodes |-> Len(tree_hex),
     leaves |-> padded_size, actual_blocks |-> num_blocks, padding |-> padding_needed,
     root |-> IF tree_hex # <<>> THEN PyStr(tree_hex[1]) ELSE PyNone,
     path |-> "output_path"]

\* The state root of block k on the chain, as cast prints it.
StateRootOf(k) == HexStr("0x", "lower", Digest(k + 1))
\* get_state_root (tree.py 11-25): None on any failure, else block.get("stateRoot"),
\* which is the chain's root or whatever else the RPC answered.
FetchOutcomes(k) == {PyNone, StateRootOf(k), BadHex}

\* the result dict of build_tree_stream (tree.py 193-204)
ResultDict(s, e, depth, num_blocks, padded_size, padding_needed, tree_hex, blocks) ==
    PyDict([scenario |-> PyStr("devnet_tree"),
            blockStart |-> PyInt(s),
            blockEnd |-> PyInt(e),
            depth |-> PyInt(depth),
            numBlocks |-> PyInt(num_blocks),
            numLeaves |-> PyInt(padded_size),
            paddingLeaves |-> PyInt(padding_needed),
            rootCommitment |-> IF tree_hex # <<>> THEN PyStr(tree_hex[1]) ELSE PyNone,
            blocks |-> PyList(blocks),
            commitmentsBFS |-> PyList([i \in 1..Len(tree_hex) |-> PyStr(tree_hex[i])])])

\* {"number": block_num, "stateRoot": root}
BlockInfo(block_num, root) == PyDict([number |-> PyInt(block_num), stateRoot |-> PyStr(root)])

\* tree_hex of the padded roots (tree.py 186-190)
TreeHex(padded_roots) ==
    LET leaves_bytes == [i \in 1..Len(padded_roots) |-> FromHex(padded_roots[i])]
        tree_bytes == build_bfs_tree(leaves_bytes)
    IN  [i \in 1..Len(tree_bytes) |-> ToHex(tree_bytes[i])]

\* the collected roots kept in one list shared by all requests
ResultOfSharedRoots(b) ==
    LET shared == CHOOSE c \in Builds : \A x \in Builds : c <= x
        p == Pad(state_roots[shared])
    IN  ResultDict(block_start[b], block_end[b], p.depth,
                   block_end[b] - block_start[b] + 1, p.padded_size, p.padding_needed,
                   TreeHex(p.padded_roots), blocks_info[shared])
\* what build b would write: tree.py 174-204 on its collected roots
ResultOf(b) ==
    LET p == Pad(state_roots[b])
    IN  ResultDict(block_start[b], block_end[b], p.depth,
                   block_end[b] - block_start[b] + 1, p.padded_size, p.padding_needed,
                   TreeHex(p.padded_roots), blocks_info[b])

NoLocals(b) ==
    /\ state_roots' = [state_roots EXCEPT ![b] = <<>>]
    /\ blocks_info' = [blocks_info EXCEPT ![b] = <<>>]

(***************************************************************************)
(* Init: the server has started, no request yet, no file at the path.      *)
(***************************************************************************)
InitServer ==
    /\ pc = [b \in Builds |-> "idle"]
    /\ block_start = [b \in Builds |-> 0]
    /\ block_end = [b \in Builds |-> 0]
    /\ state_roots = [b \in Builds |-> <<>>]
    /\ blocks_info = [b \in Builds |-> <<>>]
    /\ events = [b \in Builds |-> <<>>]
    /\ fetchLog = [b \in Builds |-> <<>>]
    /\ file = NoFile
    /\ state = [tree_loaded |-> FALSE, tree_block_range |-> PyNone]
    /\ prior = NoFile

NoCall == [op |-> "none"]
Pending == <<"pending">>

Init ==
    /\ InitServer
    /\ call = NoCall
    /\ ret = Pending

(***************************************************************************)
(* POST /api/build-tree (server.py 118-140): the generator is created and  *)
(* runs to its first yield (tree.py 126-132).                              *)
(***************************************************************************)
StartBuild(b, s, e) ==
    /\ pc[b] \in {"idle"} \cup Ended
    /\ pc' = [pc EXCEPT ![b] = "started"]
    /\ block_start' = [block_start EXCEPT ![b] = s]
    /\ block_end' = [block_end EXCEPT ![b] = e]
    /\ state_roots' = [state_roots EXCEPT ![b] = <<>>]
    /\ blocks_info' = [blocks_info EXCEPT ![b] = <<>>]
    /\ events' = [events EXCEPT ![b] = << EvStarted(s, e) >>]
    /\ fetchLog' = [fetchLog EXCEPT ![b] = <<>>]
    /\ UNCHANGED <<file, state, fnVars>>

Request(b, s, e) ==
    /\ StartBuild(b, s, e)
    /\ UNCHANGED prior

(***************************************************************************)
(* The generator resumed at the "started" yield: tree.py 134-150, or       *)
(* 134-172 when the range is empty.                                        *)
(***************************************************************************)
ResumeStarted(b) ==
    /\ pc[b] = "started"
    /\ LET num_blocks == block_end[b] - block_start[b] + 1
       IN  IF block_start[b] <= block_end[b]
           THEN /\ events' = [events EXCEPT
                                ![b] = Append(@, EvCollecting(block_start[b], 0, num_blocks))]
                /\ pc' = [pc EXCEPT ![b] = "collecting"]
           ELSE /\ events' = [events EXCEPT ![b] = Append(@, EvBuilding(0))]
                /\ pc' = [pc EXCEPT ![b] = "building"]
    /\ UNCHANGED <<block_start, block_end, state_roots, blocks_info, fetchLog,
                   file, state, prior, fnVars>>

\* the loop variable never advanced
BlockNumFirst(b) == block_start[b]
\* block_num of enumerate(range(block_start, block_end + 1)) at the current iteration
BlockNum(b) == block_start[b] + Len(state_roots[b])

\* the roots collected so far written out before the error return
FileOnErrorPartial(b) == JsonFile(json_dump(ResultOf(b)))
\* the error path returns without writing (tree.py 153-158)
FileOnError(b) == file

(***************************************************************************)
(* The generator resumed at a "collecting" yield: tree.py 152-164, then    *)
(* the next "collecting" yield, the "building" yield or the "error" yield. *)
(***************************************************************************)
Fetch(b, root) ==
    /\ pc[b] = "collecting"
    /\ LET i == Len(state_roots[b])
           block_num == BlockNum(b)
           num_blocks == block_end[b] - block_start[b] + 1
       IN  /\ root \in FetchOutcomes(block_num)
           /\ fetchLog' = [fetchLog EXCEPT ![b] = Append(@, <<block_num, root = PyNone>>)]
           /\ IF root = PyNone
              THEN /\ events' = [events EXCEPT ![b] = Append(@, EvError(block_num))]
                   /\ pc' = [pc EXCEPT ![b] = "error"]
                   /\ file' = FileOnError(b)
                   /\ UNCHANGED <<state_roots, blocks_info>>
              ELSE /\ file' = file
                   /\ state_roots' = [state_roots EXCEPT ![b] = Append(@, root)]
                   /\ blocks_info' = [blocks_info EXCEPT
                                         ![b] = Append(@, BlockInfo(block_num, root))]
                   /\ IF block_num + 1 <= block_end[b]
                      THEN /\ events' = [events EXCEPT
                                           ![b] = Append(@, EvCollecting(block_num + 1, i + 1,
                                                                         num_blocks))]
                           /\ pc' = pc
                      ELSE /\ events' = [events EXCEPT ![b] = Append(@, EvBuilding(i + 1))]
                           /\ pc' = [pc EXCEPT ![b] = "building"]
    /\ UNCHANGED <<block_start, block_end, state, prior, fnVars>>

(***************************************************************************)
(* The generator resumed at the "building" yield: tree.py 174-223, and the *)
(* server's event_generator on the "complete" event (server.py 131-133).   *)
(* bytes.fromhex raises on a root that is not hexadecimal; mkdir/open may  *)
(* raise before the file is touched; the dump may raise after open() has   *)
(* truncated the file.                                                     *)
(***************************************************************************)
WriteOutcomes == {"written", "open_fails", "dump_fails"}

BuildAndSave(b, outcome) ==
    /\ pc[b] = "building"
    /\ outcome \in WriteOutcomes
    /\ LET p == Pad(state_roots[b])
           num_blocks == block_end[b] - block_start[b] + 1
           tree_hex == TreeHex(p.padded_roots)
       IN  IF \E i \in 1..Len(p.padded_roots) : ~IsHex(p.padded_roots[i])
           THEN /\ pc' = [pc EXCEPT ![b] = "raised"]
                /\ UNCHANGED <<events, file, state>>
           ELSE CASE outcome = "open_fails" ->
                       /\ pc' = [pc EXCEPT ![b] = "raised"]
                       /\ UNCHANGED <<events, file, state>>
                  [] outcome = "dump_fails" ->
                       /\ pc' = [pc EXCEPT ![b] = "raised"]
                       /\ file' = Unparsable
                       /\ UNCHANGED <<events, state>>
                  [] outcome = "written" ->
                       /\ file' = JsonFile(json_dump(ResultOf(b)))
                       /\ events' = [events EXCEPT
                                       ![b] = Append(@, EvComplete(p.depth, tree_hex,
                                                  p.padded_size, num_blocks,
                                                  p.padding_needed))]
                       /\ state' = [tree_loaded |-> TRUE,
                                    tree_block_range |->
                                        PyList(<<block_start[b], block_end[b]>>)]
                       /\ pc' = [pc EXCEPT ![b] = "complete"]
    /\ IF pc'[b] = "raised" THEN NoLocals(b) ELSE UNCHANGED <<state_roots, blocks_info>>
    /\ UNCHANGED <<block_start, block_end, fetchLog, prior, fnVars>>

(***************************************************************************)
(* The generator resumed at its last yield ("complete", or "error" and its *)
(* return at tree.py 158): it ends.                                        *)
(***************************************************************************)
ResumeLast(b) ==
    /\ pc[b] \in {"complete", "error"}
    /\ pc' = [pc EXCEPT ![b] = "finished"]
    /\ NoLocals(b)
    /\ UNCHANGED <<block_start, block_end, events, fetchLog, file, state, prior, fnVars>>

(***************************************************************************)
(* The client of the event stream goes away while the generator is         *)
(* suspended at a yield: EventSourceResponse stops iterating               *)
(* event_generator (server.py 123-140), and the generator is never resumed.*)
(***************************************************************************)
Disconnect(b) ==
    /\ pc[b] \in Suspended
    /\ pc' = [pc EXCEPT ![b] = "closed"]
    /\ NoLocals(b)
    /\ UNCHANGED <<block_start, block_end, events, fetchLog, file, state, prior, fnVars>>

\* the ranges [s, e] a request may name on a chain of blocks 0..top; a range with
\* e < s is empty
Ranges(top) == (0..top) \X (-1..top)

(***************************************************************************)
(* Spec: build_tree_stream driven by one client at a time, one build after *)
(* the other; prior records the content of the output path when the build  *)
(* started.                                                                *)
(***************************************************************************)
SoloBuild == CHOOSE b \in Builds : \A c \in Builds : b <= c

RequestAlone(s, e) ==
    /\ StartBuild(SoloBuild, s, e)
    /\ prior' = file

Next ==
    \/ \E r \in Ranges(MaxBlock) : RequestAlone(r[1], r[2])
    \/ ResumeStarted(SoloBuild)
    \/ \E root \in FetchOutcomes(BlockNum(SoloBuild)) : Fetch(SoloBuild, root)
    \/ \E outcome \in WriteOutcomes : BuildAndSave(SoloBuild, outcome)
    \/ ResumeLast(SoloBuild)
    \/ Disconnect(SoloBuild)

Spec == Init /\ [][Next]_vars

(***************************************************************************)
(* SpecServer: the server with concurrent /api/build-tree requests on the  *)
(* one output path, interleaved at the yields of their generators.         *)
(***************************************************************************)
NextServer ==
    \E b \in Builds :
        \/ \E r \in Ranges(MaxServerBlock) : Request(b, r[1], r[2])
        \/ ResumeStarted(b)
        \/ \E root \in FetchOutcomes(BlockNum(b)) : Fetch(b, root)
        \/ \E outcome \in WriteOutcomes : BuildAndSave(b, outcome)
        \/ ResumeLast(b)
        \/ Disconnect(b)

SpecServer == Init /\ [][NextServer]_vars

(***************************************************************************)
(* SpecFn: one call of one of the functions of tree.py, or of one of the   *)
(* read routes of server.py, on an input drawn from a bounded set.         *)
(***************************************************************************)
SeqsUpTo(S, n) == UNION {[1..k -> S] : k \in 0..n}

\* two distinct leaf digests, and the roots that spell them
LeafDigests == {Digest(1), Digest(2)}
LeafRoots == {HexStr("0x", "lower", Digest(1)), HexStr("0x", "lower", Digest(2))}

\* one optional member of a JSON object: absent, or one of the given values
Member(key, values) == {<<>>} \cup {<< <<key, v>> >> : v \in values}
HexArray(tree_hex) == <<"array", [i \in 1..Len(tree_hex) |-> <<"string", tree_hex[i]>>]>>

\* File contents a reader may find at the path: none, an unparsable text, a JSON
\* text that is no object, and objects with any of the envelope's fields missing
\* or of another type.
EnvelopeTexts ==
    { <<"object", bs \o be \o d \o bl \o c>> :
        bs \in Member("blockStart", {<<"number", 0>>, <<"string", ZeroHex>>}),
        be \in Member("blockEnd", {<<"number", 1>>, <<"number", 3>>}),
        d \in Member("depth", {<<"number", 1>>, <<"number", 2>>, <<"null">>}),
        bl \in Member("blocks", {<<"array", <<>>>>,
                                 <<"array", << json_dump(BlockInfo(0, StateRootOf(0))) >> >>}),
        c \in Member("commitmentsBFS",
                     {<<"null">>, HexArray(<<>>), HexArray(<<StateRootOf(0)>>),
                      HexArray(TreeHex(<<StateRootOf(0), StateRootOf(1)>>)),
                      HexArray(TreeHex(<<StateRootOf(0), StateRootOf(1),
                                         StateRootOf(2), StateRootOf(3)>>))}) }

FileContents ==
    {NoFile, Unparsable, JsonFile(<<"array", << <<"number", 1>> >> >>),
     JsonFile(<<"array", <<>>>>), JsonFile(<<"number", 0>>)}
    \cup {JsonFile(t) : t \in EnvelopeTexts}

\* the depths handed to the projector
Depths == -1..(CeilLog2(MaxBfs + 1) + 1)

InitFn ==
    /\ pc = [b \in Builds |-> "idle"]
    /\ block_start = [b \in Builds |-> 0]
    /\ block_end = [b \in Builds |-> 0]
    /\ state_roots = [b \in Builds |-> <<>>]
    /\ blocks_info = [b \in Builds |-> <<>>]
    /\ events = [b \in Builds |-> <<>>]
    /\ fetchLog = [b \in Builds |-> <<>>]
    /\ state = [tree_loaded |-> FALSE, tree_block_range |-> PyNone]
    /\ prior = NoFile
    /\ ret = Pending
    /\ \/ /\ file = NoFile
          /\ \/ \E leaves \in SeqsUpTo(LeafDigests, MaxLeaves) :
                    call = [op |-> "build_bfs_tree", leaves |-> leaves]
             \/ \E roots \in SeqsUpTo(LeafRoots, MaxLeaves) :
                    call = [op |-> "pad", state_roots |-> roots]
             \/ \E bfs \in SeqsUpTo(LeafRoots, MaxBfs), s \in 0..1, n \in 0..MaxLeaves,
                   d \in Depths :
                    call = [op |-> "bfs_to_hierarchical", bfs_array |-> bfs,
                            block_start |-> s, block_end |-> s + n - 1, depth |-> d]
       \/ /\ file \in FileContents
          /\ call \in {[op |-> "get_tree"], [op |-> "get_tree_raw"]}

Call_build_bfs_tree ==
    /\ call.op = "build_bfs_tree" /\ ret = Pending
    /\ ret' = Return(build_bfs_tree(call.leaves))
    /\ UNCHANGED <<serverVars, prior, call>>

Call_pad ==
    /\ call.op = "pad" /\ ret = Pending
    /\ ret' = Return(Pad(call.state_roots))
    /\ UNCHANGED <<serverVars, prior, call>>

Call_bfs_to_hierarchical ==
    /\ call.op = "bfs_to_hierarchical" /\ ret = Pending
    /\ ret' = Return(bfs_to_hierarchical(call.bfs_array, call.block_start,
                                         call.block_end, call.depth))
    /\ UNCHANGED <<serverVars, prior, call>>

Call_get_tree ==
    /\ call.op = "get_tree" /\ ret = Pending
    /\ ret' = get_tree(file)
    /\ UNCHANGED <<serverVars, prior, call>>

Call_get_tree_raw ==
    /\ call.op = "get_tree_raw" /\ ret = Pending
    /\ ret' = get_tree_raw(file)
    /\ UNCHANGED <<serverVars, prior, call>>

NextFn ==
    \/ Call_build_bfs_tree
    \/ Call_pad
    \/ Call_bfs_to_hierarchical
    \/ Call_get_tree
    \/ Call_get_tree_raw

SpecFn == InitFn /\ [][NextFn]_vars

(***************************************************************************)
(* Claims about the functions (SpecFn).                                    *)
(***************************************************************************)
Returned(op) == call.op = op /\ ret # Pending

\* C1: for every non-empty leaf sequence of length n, power of two or not,
\* build_bfs_tree returns an array of length 2n-1 with leaves[i] at index n-1+i
\* and Hash(array[2i+1] || array[2i+2]) at every internal index i < n-1; for
\* n = 1 the array is the leaf itself, nothing hashed.
C1_BfsTreeShape ==
    (Returned("build_bfs_tree") /\ Len(call.leaves) >= 1) =>
        LET leaves == call.leaves
            n == Len(leaves)
            array == ret[2]
        IN  /\ Len(array) = 2 * n - 1
            /\ \A i \in 0..(n - 1) : array[(n - 1 + i) + 1] = leaves[i + 1]
            /\ \A i \in 0..(n - 2) :
                   array[i + 1] = <<"keccak", array[(2 * i + 1) + 1], array[(2 * i + 2) + 1]>>
            /\ (n = 1 => array = << leaves[1] >>)

\* a tree of three leaves (not a power of two) has been built
C1_Witness ==
    /\ Returned("build_bfs_tree")
    /\ Len(call.leaves) = 3
    /\ Len(ret[2]) = 5

\* C2: the padding step returns the input in its order followed by padding_count
\* copies of the last input element (of the zero digest for an empty input), with
\* depth = 1 for n <= 1 and the least depth >= 1 with 2^depth >= n otherwise,
\* len(padded) = 2^depth and padding_count = 2^depth - n.
C2_Padding ==
    Returned("pad") =>
        LET roots == call.state_roots
            n == Len(roots)
            p == ret[2]
            filler == IF n = 0 THEN HexStr("0x", "lower", Digest(0)) ELSE roots[n]
        IN  /\ p.depth >= 1
            /\ Pow2(p.depth) >= n
            /\ (p.depth > 1 => Pow2(p.depth - 1) < n)
            /\ (n <= 1 => p.depth = 1)
            /\ Len(p.padded_roots) = Pow2(p.depth)
            /\ p.padded_size = Len(p.padded_roots)
            /\ p.padding_needed = Pow2(p.depth) - n
            /\ \A i \in 1..n : p.padded_roots[i] = roots[i]
            /\ \A i \in (n + 1)..Len(p.padded_roots) : p.padded_roots[i] = filler

\* three roots [A, B, C] with A # C have been padded by one copy of C
C2_Witness ==
    /\ Returned("pad")
    /\ Len(call.state_roots) = 3
    /\ call.state_roots[1] # call.state_roots[3]
    /\ ret[2].padding_needed = 1
    /\ ret[2].depth = 2
    /\ ret[2].padded_roots[4] = call.state_roots[3]

\* node is the projection of BFS index `index` at that level, covering [a, b], of a
\* balanced tree of the given depth over blocks first, first+1, ...
RECURSIVE BalancedNode(_, _, _, _, _, _, _, _)
BalancedNode(node, bfs, depth, first, index, level, a, b) ==
    /\ node.hash = bfs[index + 1]
    /\ node.depth = level
    /\ node.blockRange = <<a, b>>
    /\ IF level = depth
       THEN /\ node.isLeaf
            /\ "children" \notin DOMAIN node
            /\ index >= Pow2(depth) - 1
            /\ a = first + (index - (Pow2(depth) - 1))
            /\ b = a
       ELSE /\ ~node.isLeaf
            /\ "children" \in DOMAIN node
            /\ Len(node.children) = 2
            /\ LET m == (a + b) \div 2
               IN  /\ m - a = b - (m + 1)
                   /\ BalancedNode(node.children[1], bfs, depth, first,
                                   2 * index + 1, level + 1, a, m)
                   /\ BalancedNode(node.children[2], bfs, depth, first,
                                   2 * index + 2, level + 1, m + 1, b)

\* the call is on a balanced envelope
BalancedCall ==
    /\ call.op = "bfs_to_hierarchical"
    /\ call.depth >= 0
    /\ call.block_end - call.block_start + 1 = Pow2(call.depth)
    /\ Len(call.bfs_array) = Pow2(call.depth + 1) - 1

\* C8: for a balanced envelope bfs_to_hierarchical returns a full binary tree: the
\* root covers [blockStart, blockEnd], every non-leaf node at BFS index i covering
\* [a, b] has the two children 2i+1 and 2i+2 covering the equal halves [a, mid] and
\* [mid+1, b], and the leaves are the nodes at level depth, the j-th covering
\* [blockStart+j, blockStart+j] with hash commitmentsBFS[2^depth - 1 + j].
C8_BalancedProjection ==
    (BalancedCall /\ ret # Pending) =>
        /\ Len(ret[2]) = 1
        /\ BalancedNode(ret[2][1], call.bfs_array, call.depth, call.block_start,
                        0, 0, call.block_start, call.block_end)

\* a balanced tree of depth 2 over 4 blocks has been projected
C8_Witness ==
    /\ BalancedCall
    /\ ret # Pending
    /\ call.depth = 2
    /\ call.block_start = 1
    /\ Len(ret[2][1].children) = 2
    /\ ret[2][1].children[2].children[2].blockRange = <<4, 4>>

\* the JSON object of the file lacks the member named key
LacksMember(f, key) ==
    /\ f[1] = "json"
    /\ f[2][1] = "object"
    /\ \A i \in 1..Len(f[2][2]) : f[2][2][i][1] # key

\* C10: the read path never raises: on a missing or unparsable file load_tree gives
\* absent and GET /api/tree answers "No tree loaded"; on a parsed content lacking
\* blocks or commitmentsBFS the reader takes the field as empty and returns a result.
C10_ReadNeverRaises ==
    ((call.op = "get_tree" \/ call.op = "get_tree_raw") /\ ret # Pending) =>
        /\ ret[1] = "return"
        /\ (file \in {NoFile, Unparsable} =>
               /\ IsPyDict(ret[2])
               /\ ret[2][2].error = PyStr("No tree loaded"))
        /\ ((call.op = "get_tree" /\ LacksMember(file, "commitmentsBFS")
             /\ Len(file[2][2]) > 0) =>
               ret[2][2].tree = <<>>)
        /\ ((call.op = "get_tree" /\ LacksMember(file, "blocks")
             /\ Len(file[2][2]) > 0) =>
               ret[2][2].blocks = PyList(<<>>))

(***************************************************************************)
(* Claims about build_tree_stream (Spec).                                  *)
(***************************************************************************)
HasEvent(b, kind) == \E i \in 1..Len(events[b]) : events[b][i].event = kind
IsStep(ev, step) == ev.event = "progress" /\ ev.step = step
HasStep(b, step) == \E i \in 1..Len(events[b]) : IsStep(events[b][i], step)
\* a fetch of build b returned absent
FetchFailed(b) == \E i \in 1..Len(fetchLog[b]) : fetchLog[b][i][2]

\* C3: when the fetch of some block of the range returns absent, the build yields an
\* Error event and no Complete event, and the output path holds what it held when
\* the build started (no file, if there was none): no partial tree is persisted.
C3_NoPartialTree ==
    \A b \in Builds :
        FetchFailed(b) =>
            /\ HasEvent(b, "error")
            /\ ~HasEvent(b, "complete")
            /\ file = prior

\* a build over [s, e] failed at a block k, s < k < e, with an envelope at the path
C3_Witness ==
    \E b \in Builds :
        /\ pc[b] = "finished"
        /\ FetchFailed(b)
        /\ block_start[b] < Last(fetchLog[b])[1]
        /\ Last(fetchLog[b])[1] < block_end[b]
        /\ file[1] = "json"
        /\ file = prior

\* C4: every run of build_tree_stream ends with exactly one terminal event,
\* Complete or Error, nothing after it, and no exception leaves the stream.
C4_TerminalEvent ==
    \A b \in Builds :
        /\ pc[b] # "raised"
        /\ (pc[b] = "finished" =>
               /\ events[b] # <<>>
               /\ Last(events[b]).event \in {"complete", "error"})
        /\ \A i \in 1..(Len(events[b]) - 1) :
               events[b][i].event \notin {"complete", "error"}

\* C5: a build whose fetches all succeed persists its envelope whether or not the
\* client keeps listening: a run ended by the client's disconnection, with no
\* failed fetch, has written its envelope (and yielded Complete).
C5_FireAndForget ==
    \A b \in Builds :
        (pc[b] = "closed" /\ ~FetchFailed(b)) => HasEvent(b, "complete")

\* the "collecting" events of build b, in order
Collecting(b) == SelectSeq(events[b], LAMBDA ev : IsStep(ev, "collecting"))

C6_Order(b) ==
    LET s == block_start[b]
        n == block_end[b] - block_start[b] + 1
        log == fetchLog[b]
        coll == Collecting(b)
    IN  /\ Len(log) <= Max(n, 0)
        /\ \A i \in 1..Len(log) : log[i][1] = s + i - 1
        /\ \A i \in 1..(Len(log) - 1) : ~log[i][2]
        /\ \A i \in 1..Len(coll) :
               /\ coll[i].current = s + i - 1
               /\ coll[i].index = i
               /\ coll[i].total = n
        /\ Len(coll) \in {Len(log), Len(log) + 1}
        /\ (HasStep(b, "building") => (Len(log) = Max(n, 0) /\ ~FetchFailed(b)))

C6_FetchStep ==
    \A b \in Builds :
        (fetchLog'[b] # fetchLog[b] /\ fetchLog'[b] # <<>>) =>
            /\ Len(fetchLog'[b]) = Len(fetchLog[b]) + 1
            /\ events[b] # <<>>
            /\ IsStep(Last(events[b]), "collecting")
            /\ Last(events[b]).current = Last(fetchLog'[b])[1]
            /\ Last(events[b]).index = Last(fetchLog'[b])[1] - block_start[b] + 1
            /\ Last(events[b]).total = block_end[b] - block_start[b] + 1

\* C6: state roots are fetched one at a time in ascending block order s, s+1, ..,
\* at most once per block; block k+1 only after block k returned a root; each
\* fetch of block k comes right after the "collecting" event with current = k,
\* index = k-s+1, total = e-s+1; nothing is fetched after an absent root; and the
\* "building" event comes only after all e-s+1 fetches succeeded.
C6_SequentialFetch ==
    /\ [](\A b \in Builds : C6_Order(b))
    /\ [][C6_FetchStep]_vars

\* all three blocks of a range have been fetched and "building" was yielded
C6_Witness ==
    \E b \in Builds :
        /\ pc[b] = "building"
        /\ Len(fetchLog[b]) = 3
        /\ block_start[b] = 1
        /\ Len(Collecting(b)) = 3

\* C7: once Complete has been yielded the envelope of that build is at the output
\* path, and the summary agrees with it: depth, leaves = numLeaves,
\* padding = paddingLeaves, root = rootCommitment = commitmentsBFS[0],
\* total_nodes = len(commitmentsBFS), actual_blocks = numBlocks.
C7_CompleteAfterWrite ==
    \A b \in Builds :
        (events[b] # <<>> /\ Last(events[b]).event = "complete") =>
            /\ file[1] = "json"
            /\ IsPyDict(load_tree(file))
            /\ LET summary == Last(events[b])
                   envelope == load_tree(file)[2]
               IN  /\ envelope.blockStart = PyInt(block_start[b])
                   /\ envelope.blockEnd = PyInt(block_end[b])
                   /\ envelope.depth = PyInt(summary.depth)
                   /\ envelope.numLeaves = PyInt(summary.leaves)
                   /\ envelope.paddingLeaves = PyInt(summary.padding)
                   /\ envelope.rootCommitment = summary.root
                   /\ envelope.commitmentsBFS[2][1] = summary.root
                   /\ Len(envelope.commitmentsBFS[2]) = summary.total_nodes
                   /\ envelope.numBlocks = PyInt(summary.actual_blocks)

\* a build over three blocks has yielded Complete (one padding leaf)
C7_Witness ==
    \E b \in Builds :
        /\ pc[b] = "complete"
        /\ Last(events[b]).event = "complete"
        /\ Last(events[b]).actual_blocks = 3
        /\ Last(events[b]).padding = 1

EnvelopeFields ==
    {"blockStart", "blockEnd", "depth", "numBlocks", "numLeaves", "paddingLeaves",
     "rootCommitment", "blocks", "commitmentsBFS"}

\* C9: the round trip through the file is lossless: the envelope loaded from the
\* file a build has just written has the fields it wrote, and its projection is
\* the projection of the in-memory envelope.
C9_RoundTrip ==
    \A b \in Builds :
        pc[b] = "complete" =>
            LET result == ResultOf(b)[2]
                loaded == load_tree(file)
            IN  /\ IsPyDict(loaded)
                /\ \A k \in EnvelopeFields :
                       /\ k \in DOMAIN loaded[2]
                       /\ loaded[2][k] = result[k]
                /\ get_tree_hierarchical(file)[1] = "return"
                /\ get_tree_hierarchical(file)[2][2].tree =
                       bfs_to_hierarchical(Strings(result.commitmentsBFS[2]),
                                           result.blockStart[2], result.blockEnd[2],
                                           result.depth[2])

\* an envelope of four blocks (a tree of seven nodes) has been written and is read
C9_Witness ==
    \E b \in Builds :
        /\ pc[b] = "complete"
        /\ block_end[b] - block_start[b] + 1 = 4
        /\ get_tree_hierarchical(file)[1] = "return"
        /\ Len(get_tree_hierarchical(file)[2][2].tree[1].children) = 2
        /\ get_tree_hierarchical(file)[2][2].metadata.totalNodes = 7

(***************************************************************************)
(* Claims about the projector on arbitrary arrays and depths (SpecFn).     *)
(***************************************************************************)
\* the child indices of BFS index `index` that lie inside the array
InBounds(bfs, index) ==
    SelectSeq(<<2 * index + 1, 2 * index + 2>>, LAMBDA c : c < Len(bfs))

\* node is the projection of BFS index `index` at that level: flagged a leaf iff
\* level = depth, children exactly the in-bounds child indices of a non-leaf, and
\* no children field when there is none
RECURSIVE ProjectedNode(_, _, _, _, _)
ProjectedNode(node, bfs, depth, index, level) ==
    /\ index < Len(bfs)
    /\ node.hash = bfs[index + 1]
    /\ node.depth = level
    /\ node.isLeaf = (level = depth)
    /\ LET inb == InBounds(bfs, index)
       IN  IF level = depth \/ inb = <<>>
           THEN "children" \notin DOMAIN node
           ELSE /\ "children" \in DOMAIN node
                /\ Len(node.children) = Len(inb)
                /\ \A k \in 1..Len(inb) :
                       ProjectedNode(node.children[k], bfs, depth, inb[k], level + 1)

\* C11: bfs_to_hierarchical returns for every BFS array (empty, well-formed or
\* truncated to any length) and every integer depth (too large, 0 or negative):
\* empty for an empty array; otherwise one node per in-bounds index reached, each
\* flagged isLeaf iff its level equals depth, a child attached only when its index
\* 2i+1 or 2i+2 is inside the array, and no children field on a node with no
\* in-bounds child.
C11_ProjectorTotal ==
    Returned("bfs_to_hierarchical") =>
        /\ ret[1] = "return"
        /\ (call.bfs_array = <<>> => ret[2] = <<>>)
        /\ (call.bfs_array # <<>> =>
               /\ Len(ret[2]) = 1
               /\ ProjectedNode(ret[2][1], call.bfs_array, call.depth, 0, 0))

\* an array truncated to four entries has been projected with a depth it does not
\* reach: index 1 keeps its one child, index 2 is a non-leaf without children field
C11_Witness ==
    /\ Returned("bfs_to_hierarchical")
    /\ Len(call.bfs_array) = 4
    /\ call.depth = 3
    /\ Len(ret[2][1].children) = 2
    /\ Len(ret[2][1].children[1].children) = 1
    /\ ~ret[2][1].children[2].isLeaf
    /\ "children" \notin DOMAIN ret[2][1].children[2]

(***************************************************************************)
(* Claims about the envelopes build_tree_stream writes (Spec).             *)
(***************************************************************************)
\* the leaves of a projected tree, left to right
RECURSIVE LeavesOf(_)
LeavesOf(node) ==
    IF "children" \in DOMAIN node
    THEN IF Len(node.children) = 2
         THEN LeavesOf(node.children[1]) \o LeavesOf(node.children[2])
         ELSE LeavesOf(node.children[1])
    ELSE << node >>

\* every node of a projected tree covers a range [a, b] with a <= b
RECURSIVE RangesOrdered(_)
RangesOrdered(node) ==
    /\ node.blockRange[1] <= node.blockRange[2]
    /\ ("children" \in DOMAIN node =>
           \A k \in 1..Len(node.children) : RangesOrdered(node.children[k]))

\* C12: the projection of an envelope build_tree_stream has written, made with the
\* envelope's own blockStart, blockEnd and depth, labels the tree as it was built,
\* padded or not: the leaf at position j < numBlocks, whose hash is the state root
\* of block blockStart+j, carries blockRange [blockStart+j, blockStart+j], and
\* every node's blockRange [a, b] has a <= b.  Stated for the builds over at
\* least one block.
C12_ProjectionLabels ==
    \A b \in Builds :
        (pc[b] = "complete" /\ block_start[b] <= block_end[b]) =>
            LET envelope == load_tree(file)[2]
                s == envelope.blockStart[2]
                projection == get_tree_hierarchical(file)[2][2].tree
                leaves == LeavesOf(projection[1])
            IN  /\ \A j \in 0..(envelope.numBlocks[2] - 1) :
                       /\ FromHex(leaves[j + 1].hash) =
                              FromHex(envelope.blocks[2][j + 1][2].stateRoot[2])
                       /\ envelope.blocks[2][j + 1][2].number = PyInt(s + j)
                       /\ leaves[j + 1].blockRange = <<s + j, s + j>>
                /\ RangesOrdered(projection[1])

\* C13: every envelope build_tree_stream persists, for any requested range
\* including blockEnd < blockStart, is consistent: numLeaves = 2^depth with
\* depth >= 1, len(commitmentsBFS) = 2*numLeaves - 1 (odd), rootCommitment =
\* commitmentsBFS[0], paddingLeaves = numLeaves - numBlocks >= 0, len(blocks) =
\* numBlocks, and blocks lists blockStart..blockEnd in ascending order without
\* gaps, each with the state root fetched for it.
C13_EnvelopeConsistent ==
    \A b \in Builds :
        pc[b] = "complete" =>
            LET envelope == load_tree(file)[2]
                depth == envelope.depth[2]
                numLeaves == envelope.numLeaves[2]
                numBlocks == envelope.numBlocks[2]
                paddingLeaves == envelope.paddingLeaves[2]
                bfs == envelope.commitmentsBFS[2]
                blocks == envelope.blocks[2]
            IN  /\ depth >= 1
                /\ numLeaves = Pow2(depth)
                /\ Len(bfs) = 2 * numLeaves - 1
                /\ Len(bfs) % 2 = 1
                /\ envelope.rootCommitment = bfs[1]
                /\ paddingLeaves = numLeaves - numBlocks
                /\ 0 <= paddingLeaves
                /\ Len(blocks) = numBlocks
                /\ \A i \in 1..Len(blocks) :
                       /\ blocks[i][2].number = PyInt(envelope.blockStart[2] + i - 1)
                       /\ blocks[i][2].stateRoot = PyStr(state_roots[b][i])
                /\ Len(blocks) = Max(envelope.blockEnd[2] - envelope.blockStart[2] + 1, 0)

(***************************************************************************)
(* Claims about the server under concurrent requests (SpecServer).         *)
(***************************************************************************)
\* the path holds an envelope, and the server's range is that envelope's
C14_RangeOfFile ==
    state.tree_loaded =>
        /\ file[1] = "json"
        /\ IsPyDict(load_tree(file))
        /\ state.tree_block_range =
               PyList(<< load_tree(file)[2].blockStart[2], load_tree(file)[2].blockEnd[2] >>)

\* build b yields its Complete event in this step
YieldsComplete(b) ==
    /\ Len(events'[b]) = Len(events[b]) + 1
    /\ Last(events'[b]).event = "complete"

C14_StateStep ==
    /\ (state' # state => \E b \in Builds : YieldsComplete(b))
    /\ \A b \in Builds : (pc[b] # "error" /\ pc'[b] = "error") => state' = state
    /\ (state.tree_loaded => state'.tree_loaded)

\* C14: under any interleaving of concurrent /api/build-tree requests (successful,
\* failing or abandoned) on the one output path, whenever state.tree_loaded is true
\* state.tree_block_range is [blockStart, blockEnd] of the envelope stored at the
\* path; tree_loaded and tree_block_range change only when a Complete event is
\* observed; a build ending in Error leaves both unchanged; and tree_loaded never
\* returns to false.
C14_ServerState ==
    /\ []C14_RangeOfFile
    /\ [][C14_StateStep]_vars

\* the value v read from the path is one whole envelope: every field is the one
\* build_tree_stream derives from the envelope's own range and blocks
WholeEnvelope(v) ==
    /\ IsPyDict(v)
    /\ DOMAIN v[2] = EnvelopeFields \cup {"scenario"}
    /\ LET d == v[2]
           s == d.blockStart[2]
           e == d.blockEnd[2]
           blocks == d.blocks[2]
           roots == [i \in 1..Len(blocks) |-> blocks[i][2].stateRoot[2]]
           p == Pad(roots)
       IN  /\ Len(blocks) = Max(e - s + 1, 0)
           /\ \A i \in 1..Len(blocks) : blocks[i][2].number = PyInt(s + i - 1)
           /\ v = ResultDict(s, e, p.depth, e - s + 1, p.padded_size, p.padding_needed,
                             TreeHex(p.padded_roots), blocks)

\* What a read finds at the path.  GET /api/tree and GET /api/tree/raw (server.py
\* 143-164) run without suspending, so a read interleaved anywhere among the builds
\* returns get_tree(file) or get_tree_raw(file) of the state it runs in.
C15_ReadsWhole ==
    LET v == load_tree(file)
    IN  \/ /\ v = PyNone
           /\ get_tree_raw(file) = Return(PyDict([error |-> PyStr("No tree loaded")]))
           /\ get_tree(file) =
                  Return(PyDict([error |-> PyStr("No tree loaded"), tree |-> PyNone]))
        \/ /\ WholeEnvelope(v)
           /\ get_tree_raw(file) = Return(v)
           /\ get_tree(file)[1] = "return"
           /\ LET result == get_tree(file)[2][2]
              IN  /\ result.metadata.blockStart = v[2].blockStart
                  /\ result.metadata.blockEnd = v[2].blockEnd
                  /\ result.metadata.depth = v[2].depth
                  /\ result.metadata.rootCommitment = v[2].rootCommitment
                  /\ result.metadata.totalNodes = Len(v[2].commitmentsBFS[2])
                  /\ result.blocks = v[2].blocks
                  /\ result.tree[1].hash = v[2].rootCommitment[2]

\* build b persists in this step
Persists(b) == pc[b] = "building" /\ pc'[b] = "complete"

C15_WriteStep ==
    /\ \A b \in Builds :
           Persists(b) =>
               /\ IsPyDict(load_tree(file'))
               /\ load_tree(file')[2].blockStart = PyInt(block_start[b])
               /\ load_tree(file')[2].blockEnd = PyInt(block_end[b])
               /\ load_tree(file')[2].blocks = PyList(blocks_info[b])
    /\ (file' # file =>
           \E b \in Builds : pc[b] = "building" /\ pc'[b] \in {"complete", "raised"})
    /\ (load_tree(file') # load_tree(file) =>
           \/ \E b \in Builds : Persists(b)
           \/ load_tree(file') = PyNone)

\* C15: under any interleaving of concurrent builds and reads on the one output
\* path, a read finds no envelope or the whole envelope of one build, never a
\* partially written one nor a mixture of two builds' fields; the envelope at the
\* path is that of the build that persisted last (each persisting step replaces it
\* by the persisting build's own, and nothing else puts an envelope there); and a
\* build that has not reached its write step changes nothing at the path.
C15_LastWriterWins ==
    /\ []C15_ReadsWhole
    /\ [][C15_WriteStep]_vars

\* a first build has persisted, then a second one over another range while the
\* first was still open: the path holds the second build's envelope, whole
C15_Witness ==
    \E b \in Builds, c \in Builds :
        /\ b # c
        /\ HasEvent(b, "complete")
        /\ pc[c] = "complete"
        /\ <<block_start[b], block_end[b]>> # <<block_start[c], block_end[c]>>
        /\ block_end[c] - block_start[c] + 1 = 2
        /\ WholeEnvelope(load_tree(file))
        /\ load_tree(file)[2].blocks = PyList(blocks_info[c])
        /\ state.tree_block_range = PyList(<<block_start[c], block_end[c]>>)
        /\ get_tree(file)[2][2].metadata.totalNodes = 3

====
